---- MODULE Spec2Model ----
(***************************************************************************)
(* A model of coast_guard's cleaning utilities (clean_utils.py):           *)
(*   - get_hot_bins: the greedy hot-bin detector            (SpecHot)      *)
(*   - remove_profile / remove_profile_inplace              (SpecFit)      *)
(*   - detrend / iterative_detrend                          (SpecDetrend)  *)
(*   - channel_scaler / subint_scaler                       (SpecScale)    *)
(*   - comprehensive_stats                                  (SpecStats)    *)
(*   - clean_subint                                         (SpecClean)    *)
(* and of the configuration types of cleaners/config_types.py (SpecParam). *)
(* Each part has its own state variable and its own specification; the     *)
(* variables of the other parts stay at their idle value.                  *)
(***************************************************************************)
EXTENDS Integers, Sequences, FiniteSets, TLC

VARIABLES hot, fit, det, scl, sts, cln, par

vars == <<hot, fit, det, scl, sts, cln, par>>

\* the variables a part of the model leaves alone
notHot == <<fit, det, scl, sts, cln, par>>

notFit == <<hot, det, scl, sts, cln, par>>

notDet == <<hot, fit, scl, sts, cln, par>>

notScl == <<hot, fit, det, sts, cln, par>>

notSts == <<hot, fit, det, scl, cln, par>>

notCln == <<hot, fit, det, scl, sts, par>>

notPar == <<hot, fit, det, scl, sts, cln>>

(***************************************************************************)
(* Bounds of the model.                                                    *)
(***************************************************************************)
\* longest profile handed to get_hot_bins
MaxBins == 3
\* amplitudes of a profile are drawn from 0..MaxVal
MaxVal == 2
\* values of the normality statistic are drawn from 0..MaxStat
MaxStat == 2
\* largest configured max_num_hot
MaxCap == 1
\* largest number of (sub-observation, channel) cells of a cube
MaxCells == 2
\* longest series handed to iterative_detrend
MaxLen == 4
\* largest number of elements of a diagnostic matrix
MaxSlice == 3
\* longest detrend chain of an axis scaler
MaxChain == 2
\* longest parameter string built from the alphabet of a configuration type
MaxStr == 4
\* largest number of profiles (sub-observation, channel, polarisation) of an
\* archive handed to clean_subint
MaxProfs == 3

(***************************************************************************)
(* Values that are not numbers.                                            *)
(***************************************************************************)
\* the float NaN (every ordered comparison with it is false)
NaN == 0 - 1
\* Python's None, for an integer-valued parameter or a status
None == 0 - 2

(***************************************************************************)
(* get_hot_bins (clean_utils.py:490-546)                                   *)
(***************************************************************************)

\* the values the K^2 statistic of scipy.stats.normaltest can take
Stats == 0..MaxStat

\* scipy.stats.normaltest(masked_data.compressed())[0]: the statistic is an
\* external function of the unmasked sample.  On a non-empty sample it is a
\* number or NaN; on an empty sample the library either raises or yields NaN.
\* "raise" is encoded as None.
NormalTest(unmasked) ==
    IF unmasked = {} THEN {NaN, None} ELSE Stats \cup {NaN}

\* a < b on floats
FloatLt(a, b) == a # NaN /\ b # NaN /\ a < b

\* a > b on floats
FloatGt(a, b) == a # NaN /\ b # NaN /\ a > b

\* line 518, with `<=` in place of `<`
StatBelowOrEqual(stat, thresh) == stat # NaN /\ stat <= thresh

\* line 518: prev_stat < normstat_thresh
StatBelow(stat, thresh) == FloatLt(stat, thresh)

\* the indices of a profile
Bins(data) == 1..Len(data)

\* masked_data.count(): the indices not masked
Unmasked(data, mask) == Bins(data) \ mask

\* np.argmax(masked_data): the first unmasked index holding the largest
\* unmasked value
ArgMax(data, mask) ==
    CHOOSE i \in Unmasked(data, mask) :
        /\ \A j \in Unmasked(data, mask) : data[j] <= data[i]
        /\ \A j \in Unmasked(data, mask) : data[j] = data[i] => i <= j

\* np.argmin(masked_data)
ArgMin(data, mask) ==
    CHOOSE i \in Unmasked(data, mask) :
        /\ \A j \in Unmasked(data, mask) : data[j] >= data[i]
        /\ \A j \in Unmasked(data, mask) : data[j] = data[i] => i <= j

\* the k-th smallest (k = 1..) of the values data[i], i \in idx
KthSmallest(data, idx, k) ==
    CHOOSE v \in {data[i] : i \in idx} :
        /\ Cardinality({i \in idx : data[i] < v}) < k
        /\ Cardinality({i \in idx : data[i] <= v}) >= k

\* twice the median of the values data[i], i \in idx (idx not empty)
TwiceMedian(data, idx) ==
    LET n == Cardinality(idx)
    IN  IF n % 2 = 1
        THEN 2 * KthSmallest(data, idx, (n + 1) \div 2)
        ELSE KthSmallest(data, idx, n \div 2) + KthSmallest(data, idx, n \div 2 + 1)

\* line 527, np.median(masked_data), doubled: numpy's median of a masked array
\* is taken over the unmasked values in builds where np.median honours the mask
\* and over all values in builds where it does not
Median2(data, mask, honoursMask) ==
    IF honoursMask THEN TwiceMedian(data, Unmasked(data, mask))
                   ELSE TwiceMedian(data, Bins(data))

\* lines 525-535: the bin deviating most from the median
ToMask(data, mask, honoursMask) ==
    LET imax == ArgMax(data, mask)
        imin == ArgMin(data, mask)
        med2 == Median2(data, mask, honoursMask)
        median_to_max == 2 * data[imax] - med2
        median_to_min == med2 - 2 * data[imin]
    IN  IF median_to_max > median_to_min THEN imax ELSE imin

\* line 543 left out: the bin just tried stays masked
UndoMaskForgotten(mask, to_mask) == mask

\* line 543: masked_data.mask[to_mask] = False
UndoMask(mask, to_mask) == mask \ {to_mask}

\* what a call has produced so far
Running == [kind |-> "running", indices |-> {}, status |-> None]

Raised(what) == [kind |-> what, indices |-> {}, status |-> None]

\* a function that ends without a return statement returns None
ReturnedNone == [kind |-> "none", indices |-> {}, status |-> None]

\* return (np.flatnonzero(masked_data.mask), status)
Returned(mask, status) == [kind |-> "return", indices |-> mask, status |-> status]

HotIdle == [pc |-> "idle"]

FitIdle == [pc |-> "idle"]

DetIdle == [pc |-> "idle"]

SclIdle == [pc |-> "idle"]

StsIdle == [pc |-> "idle"]

ClnIdle == [pc |-> "idle"]

ParIdle == [pc |-> "idle"]

\* the profiles a call can be given
Profiles == UNION {[1..n -> 0..MaxVal] : n \in 1..MaxBins}

\* a call get_hot_bins(data, normstat_thresh, max_num_hot, only_decreasing),
\* before its first statement
HotInit ==
    /\ fit = FitIdle
    /\ det = DetIdle
    /\ scl = SclIdle
    /\ sts = StsIdle
    /\ cln = ClnIdle
    /\ par = ParIdle
    /\ \E data \in Profiles, thresh \in 1..MaxStat,
       cap \in {None} \cup 0..MaxCap, dec \in BOOLEAN, hm \in BOOLEAN :
        hot = [pc |-> "start", data |-> data, normstat_thresh |-> thresh,
               max_num_hot |-> cap, only_decreasing |-> dec,
               honoursMask |-> hm, mask |-> {}, prev_stat |-> NaN,
               curr_stat |-> NaN, to_mask |-> 0, statOf |-> <<>>,
               emptyEvaluated |-> FALSE, ret |-> Running]

\* the statistic of a sample, remembered in statOf under the masked set
Remember(statOf, mask, stat) == (mask :> stat) @@ statOf

\* lines 514-516
HotStart ==
    /\ UNCHANGED notHot
    /\ hot.pc = "start"
    /\ \E stat \in NormalTest(Bins(hot.data)) :
        IF stat = None
        THEN hot' = [hot EXCEPT !.pc = "done", !.ret = Raised("ValueError")]
        ELSE hot' = [hot EXCEPT !.pc = "loop", !.prev_stat = stat,
                                !.statOf = Remember(hot.statOf, {}, stat)]

\* line 517, condition false: the loop ends and the function with it
HotLoopExit ==
    /\ UNCHANGED notHot
    /\ hot.pc = "loop"
    /\ Unmasked(hot.data, hot.mask) = {}
    /\ hot' = [hot EXCEPT !.pc = "done", !.ret = ReturnedNone]

\* lines 518-520
HotReturnBelow ==
    /\ UNCHANGED notHot
    /\ hot.pc = "loop"
    /\ Unmasked(hot.data, hot.mask) # {}
    /\ StatBelow(hot.prev_stat, hot.normstat_thresh)
    /\ hot' = [hot EXCEPT !.pc = "done", !.ret = Returned(hot.mask, 0)]

\* lines 521-523: with max_num_hot given, len(hot_bins) is evaluated, and
\* hot_bins is a name the function never binds
HotCapCheck ==
    /\ UNCHANGED notHot
    /\ hot.pc = "loop"
    /\ Unmasked(hot.data, hot.mask) # {}
    /\ ~StatBelow(hot.prev_stat, hot.normstat_thresh)
    /\ hot.max_num_hot # None
    /\ hot' = [hot EXCEPT !.pc = "done", !.ret = Raised("NameError")]

\* lines 525-537
HotMaskExtreme ==
    /\ UNCHANGED notHot
    /\ hot.pc = "loop"
    /\ Unmasked(hot.data, hot.mask) # {}
    /\ ~StatBelow(hot.prev_stat, hot.normstat_thresh)
    /\ hot.max_num_hot = None
    /\ LET tm == ToMask(hot.data, hot.mask, hot.honoursMask)
           newmask == hot.mask \cup {tm}
       IN  \E stat \in NormalTest(Unmasked(hot.data, newmask)) :
            IF stat = None
            THEN hot' = [hot EXCEPT !.pc = "done", !.mask = newmask, !.to_mask = tm,
                                    !.emptyEvaluated = TRUE,
                                    !.ret = Raised("ValueError")]
            ELSE hot' = [hot EXCEPT !.pc = "compare", !.mask = newmask,
                                    !.to_mask = tm, !.curr_stat = stat,
                                    !.emptyEvaluated =
                                        @ \/ Unmasked(hot.data, newmask) = {},
                                    !.statOf = Remember(hot.statOf, newmask, stat)]

\* lines 540-544
HotIncreasing ==
    /\ UNCHANGED notHot
    /\ hot.pc = "compare"
    /\ hot.only_decreasing /\ FloatGt(hot.curr_stat, hot.prev_stat)
    /\ LET restored == UndoMask(hot.mask, hot.to_mask)
       IN  hot' = [hot EXCEPT !.pc = "done", !.mask = restored,
                              !.ret = Returned(restored, 1)]

\* lines 545-546
HotIterate ==
    /\ UNCHANGED notHot
    /\ hot.pc = "compare"
    /\ ~(hot.only_decreasing /\ FloatGt(hot.curr_stat, hot.prev_stat))
    /\ hot' = [hot EXCEPT !.pc = "loop", !.prev_stat = hot.curr_stat]

HotNext ==
    \/ HotStart
    \/ HotLoopExit
    \/ HotReturnBelow
    \/ HotCapCheck
    \/ HotMaskExtreme
    \/ HotIncreasing
    \/ HotIterate

SpecHot == HotInit /\ [][HotNext]_vars

(***************************************************************************)
(* Claims about get_hot_bins                                               *)
(***************************************************************************)

\* C3: every call of get_hot_bins ends without raising and returns a pair
\* (indices, status) with status 0, 1 or 2, and the normality statistic is never
\* evaluated on an empty set of unmasked values.
C3_AlwaysReturnsPair ==
    hot.pc = "done" =>
        /\ hot.ret.kind = "return"
        /\ hot.ret.status \in {0, 1, 2}
        /\ ~hot.emptyEvaluated

\* C4: a call with max_num_hot = k that does not end with status 0 or 1 ends
\* with status 2 and returns exactly the k bins masked so far; no call with
\* max_num_hot = k returns more than k indices.
C4_CapGivesStatus2 ==
    (hot.pc = "done" /\ hot.max_num_hot # None) =>
        /\ hot.ret.kind = "return"
        /\ Cardinality(hot.ret.indices) <= hot.max_num_hot
        /\ hot.ret.status \notin {0, 1} =>
            /\ hot.ret.status = 2
            /\ hot.ret.indices = hot.mask
            /\ Cardinality(hot.mask) = hot.max_num_hot

\* C5: status 0 is returned only when the statistic of the currently unmasked
\* values is below normstat_thresh, with exactly the masked bins as indices; and
\* when the statistic of the whole profile is below the threshold nothing is
\* masked and the result is the empty list with status 0.
C5_StatusZeroMeansBelow ==
    /\ (hot.pc = "done" /\ hot.ret.kind = "return" /\ hot.ret.status = 0) =>
        /\ hot.mask \in DOMAIN hot.statOf
        /\ hot.statOf[hot.mask] # NaN
        /\ hot.statOf[hot.mask] < hot.normstat_thresh
        /\ hot.ret.indices = hot.mask
    /\ (hot.pc \notin {"idle", "start"} /\ hot.statOf[{}] # NaN
            /\ hot.statOf[{}] < hot.normstat_thresh) =>
        /\ hot.mask = {}
        /\ hot.pc \in {"loop", "done"}
        /\ hot.pc = "done" => hot.ret = [kind |-> "return", indices |-> {}, status |-> 0]

\* C5 witness: status 0 returned after a bin has been masked
C5_Witness ==
    /\ hot.pc = "done"
    /\ hot.ret.kind = "return"
    /\ hot.ret.status = 0
    /\ hot.ret.indices # {}

\* C6: the bin tried is one not yet masked; with only_decreasing, when the
\* statistic after masking it is strictly larger than the previous one the bin
\* is unmasked again and the call returns status 1 with the bins masked before;
\* otherwise the bin stays masked, the statistic becomes the previous one and
\* the loop continues.
C6_IncreasingUndoes ==
    [][/\ (hot.pc = "loop" /\ hot'.pc = "compare") =>
            /\ hot'.to_mask \notin hot.mask
            /\ hot'.mask = hot.mask \cup {hot'.to_mask}
       /\ hot.pc = "compare" =>
            IF /\ hot.only_decreasing
               /\ hot.curr_stat # NaN /\ hot.prev_stat # NaN
               /\ hot.curr_stat > hot.prev_stat
            THEN /\ hot'.pc = "done"
                 /\ hot'.mask = hot.mask \ {hot.to_mask}
                 /\ hot'.ret = [kind |-> "return", status |-> 1,
                                indices |-> hot.mask \ {hot.to_mask}]
            ELSE /\ hot'.pc = "loop"
                 /\ hot'.mask = hot.mask
                 /\ hot'.prev_stat = hot.curr_stat]_vars

\* C6 witness: status 1 returned after an earlier bin was kept
C6_Witness ==
    /\ hot.pc = "done"
    /\ hot.ret.kind = "return"
    /\ hot.ret.status = 1
    /\ hot.ret.indices # {}

(***************************************************************************)
(* remove_profile, remove_profile_inplace (clean_utils.py:349-426)         *)
(***************************************************************************)

\* the profiles of a cell and the template: arrays of equal length
FitProfiles == {<<0, 1>>, <<2, 1>>}

FitTemplates == {<<1, 2>>, <<1, 0>>}

\* scipy.optimize.leastsq is an external solver: it returns the fitted
\* amplitude and a status `ier`
LeastsqAmps == {1, 2}

LeastsqStatuses == {0, 1, 4, 5}

Leastsq == [amp : LeastsqAmps, status : LeastsqStatuses]

\* lines 354, 390: status in (1,2,3,4)
FitSucceeded(status) == status \in {1, 2, 3, 4}

\* lines 352, 388: err = lambda amp: amp*template - prof
Err(amp, template, prof) == [b \in DOMAIN prof |-> amp * template[b] - prof[b]]

\* np.zeros_like(prof)
ZerosLike(prof) == [b \in DOMAIN prof |-> 0]

\* Python's None where an amplitude array is expected
NoAmps == <<>>

\* remove_profile1d that hands the residual back whatever the status
RemoveProfile1dUnchecked(prof, isub, ichan, template, lsq) ==
    [cell |-> <<isub, ichan>>, amps |-> Err(lsq.amp, template, prof)]

\* lines 349-359: remove_profile1d, given the solver's answer
RemoveProfile1d(prof, isub, ichan, template, lsq) ==
    [cell |-> <<isub, ichan>>,
     amps |-> IF ~FitSucceeded(lsq.status)
              THEN ZerosLike(prof)
              ELSE Err(lsq.amp, template, prof)]

\* lines 385-395: remove_profile1d_inplace, given the solver's answer
RemoveProfile1dInplace(prof, isub, ichan, template, lsq) ==
    [cell |-> <<isub, ichan>>,
     amps |-> IF ~FitSucceeded(lsq.status)
              THEN NoAmps
              ELSE Err(lsq.amp, template, prof)]

\* np.ndindex(nsubs, nchans): the cells in row-major order
NdIndex(nsubs, nchans) ==
    [k \in 1..(nsubs * nchans) |->
        <<((k - 1) \div nchans) + 1, ((k - 1) % nchans) + 1>>]

CellsOf(f) == {NdIndex(f.nsubs, f.nchans)[k] : k \in 1..(f.nsubs * f.nchans)}

Shapes == {sh \in (1..MaxCells) \X (1..MaxCells) : sh[1] * sh[2] <= MaxCells}

\* the solver has not been run for the cell
NotRun == [amp |-> 0, status |-> None]

\* a call remove_profile(data, nsubs, nchans, template, nthreads) (mode "copy")
\* or remove_profile_inplace(ar, template, nthreads) (mode "inplace"), before
\* its loop.  In mode "inplace" data is ar.get_data().squeeze(), a copy of the
\* archive's amplitudes arAmps; arWeights are the archive's profile weights.
FitInit ==
    /\ hot = HotIdle
    /\ det = DetIdle
    /\ scl = SclIdle
    /\ sts = StsIdle
    /\ cln = ClnIdle
    /\ par = ParIdle
    /\ \E sh \in Shapes, mode \in {"copy", "inplace"}, nthreads \in {1, 2},
          template \in FitTemplates :
        \E data \in [{NdIndex(sh[1], sh[2])[k] : k \in 1..(sh[1] * sh[2])} -> FitProfiles] :
            fit = [pc |-> IF nthreads = 1 THEN "single" ELSE "pool",
                   mode |-> mode, nthreads |-> nthreads,
                   nsubs |-> sh[1], nchans |-> sh[2], template |-> template,
                   k |-> 1, orig |-> data, data |-> data,
                   arAmps |-> data, arWeights |-> [c \in DOMAIN data |-> 1],
                   lsq |-> [c \in DOMAIN data |-> NotRun],
                   results |-> <<>>,
                   writes |-> [c \in DOMAIN data |-> 0]]

\* lines 406-410 and 422-426: the write-back of one result into the archive
WriteArchive(f, cell, amps) ==
    IF amps = NoAmps
    THEN [f EXCEPT !.arWeights[cell] = 0]
    ELSE [f EXCEPT !.arAmps[cell] = amps, !.writes[cell] = @ + 1]

\* data[0, 0] = prof: the write goes to the first cell whatever the result's
WriteCubeFirst(f, cell, amps) ==
    [f EXCEPT !.data[<<1, 1>>] = amps, !.writes[<<1, 1>>] = @ + 1]

\* lines 368-369 and 381: data[isub, ichan] = prof
WriteCube(f, cell, amps) ==
    [f EXCEPT !.data[cell] = amps, !.writes[cell] = @ + 1]

WriteBack(f, cell, amps) ==
    IF f.mode = "copy" THEN WriteCube(f, cell, amps)
                       ELSE WriteArchive(f, cell, amps)

\* the loop counter after one more iteration, and where the call is then
Advance(f, loop) ==
    [f EXCEPT !.k = @ + 1,
              !.pc = IF f.k + 1 > f.nsubs * f.nchans THEN "done" ELSE loop]

\* lines 367-369 and 404-410: one iteration of the single-threaded loop.
\* Both remove_profile and remove_profile_inplace call remove_profile1d.
FitSingle ==
    /\ UNCHANGED notFit
    /\ fit.pc = "single"
    /\ \E lsq \in Leastsq :
        LET cell == NdIndex(fit.nsubs, fit.nchans)[fit.k]
            res == RemoveProfile1d(fit.data[cell], cell[1], cell[2],
                                   fit.template, lsq)
            ran == [fit EXCEPT !.lsq[cell] = lsq]
        IN  fit' = Advance(WriteBack(ran, res.cell, res.amps), "single")

\* lines 373-375 and 414-416: one apply_async; the arguments are those of
\* the moment of the call
FitSubmit ==
    /\ UNCHANGED notFit
    /\ fit.pc = "pool"
    /\ fit.k <= fit.nsubs * fit.nchans
    /\ LET cell == NdIndex(fit.nsubs, fit.nchans)[fit.k]
           task == [prof |-> fit.data[cell], isub |-> cell[1], ichan |-> cell[2],
                    template |-> fit.template, ready |-> FALSE,
                    value |-> [cell |-> cell, amps |-> NoAmps]]
       IN  fit' = [fit EXCEPT !.k = @ + 1, !.results = Append(@, task)]

\* a worker of the pool runs one submitted task: remove_profile1d on the
\* task's own arguments
FitWorker ==
    /\ UNCHANGED notFit
    /\ fit.pc = "pool"
    /\ \E i \in DOMAIN fit.results, lsq \in Leastsq :
        /\ ~fit.results[i].ready
        /\ LET t == fit.results[i]
               res == RemoveProfile1d(t.prof, t.isub, t.ichan, t.template, lsq)
           IN  fit' = [fit EXCEPT !.results[i].ready = TRUE,
                                  !.results[i].value = res,
                                  !.lsq[<<t.isub, t.ichan>>] = lsq]

\* pool.close() with no pool.join(): the coordinator does not wait
FitJoinEarly ==
    /\ UNCHANGED notFit
    /\ fit.pc = "pool"
    /\ fit.k > fit.nsubs * fit.nchans
    /\ fit' = [fit EXCEPT !.pc = "gather", !.k = 1]

\* lines 376-377 and 417-418: pool.close(); pool.join() returns once every
\* submitted task has run
FitJoin ==
    /\ UNCHANGED notFit
    /\ fit.pc = "pool"
    /\ fit.k > fit.nsubs * fit.nchans
    /\ \A i \in DOMAIN fit.results : fit.results[i].ready
    /\ fit' = [fit EXCEPT !.pc = "gather", !.k = 1]

\* lines 378-381 and 419-426: one iteration of the loop over the results
FitGather ==
    /\ UNCHANGED notFit
    /\ fit.pc = "gather"
    /\ LET res == fit.results[fit.k].value
       IN  fit' = Advance(WriteBack(fit, res.cell, res.amps), "gather")

FitNext ==
    \/ FitSingle
    \/ FitSubmit
    \/ FitWorker
    \/ FitJoin
    \/ FitGather

SpecFit == FitInit /\ [][FitNext]_vars

(***************************************************************************)
(* Claims about profile removal                                            *)
(***************************************************************************)

\* C1: after in-place removal every cell whose fit failed has weight zero and
\* its amplitudes as they were, and every cell whose fit succeeded holds the
\* residual and its weight as it was.
C1_InplaceFailureZeroesWeight ==
    (fit.pc = "done" /\ fit.mode = "inplace") =>
        \A c \in DOMAIN fit.orig :
            IF fit.lsq[c].status \in {1, 2, 3, 4}
            THEN /\ fit.arAmps[c] = [b \in DOMAIN fit.orig[c] |->
                        fit.lsq[c].amp * fit.template[b] - fit.orig[c][b]]
                 /\ fit.arWeights[c] = 1
            ELSE /\ fit.arWeights[c] = 0
                 /\ fit.arAmps[c] = fit.orig[c]

\* C2: a copy-mode call always runs to its end whatever fits fail, and at its
\* end every cell has been fitted, each failed cell holds zeros and each other
\* cell the residual of its own original profile.
C2_CopyFailureZeroesResidual ==
    /\ (fit.pc \notin {"idle", "done"} /\ fit.mode = "copy") => ENABLED FitNext
    /\ (fit.pc = "done" /\ fit.mode = "copy") =>
        \A c \in DOMAIN fit.orig :
            /\ fit.lsq[c] # NotRun
            /\ fit.data[c] =
                IF fit.lsq[c].status \in {1, 2, 3, 4}
                THEN [b \in DOMAIN fit.orig[c] |->
                        fit.lsq[c].amp * fit.template[b] - fit.orig[c][b]]
                ELSE [b \in DOMAIN fit.orig[c] |-> 0]

\* C2 witness: a pooled copy-mode call has ended with one fit failed and
\* another succeeded
C2_Witness ==
    /\ fit.pc = "done"
    /\ fit.mode = "copy"
    /\ fit.nthreads > 1
    /\ \E c, d \in DOMAIN fit.orig :
        /\ fit.lsq[c].status \notin {1, 2, 3, 4}
        /\ fit.lsq[d].status \in {1, 2, 3, 4}

(***************************************************************************)
(* Exact arithmetic.  A float is modelled by a fraction <<n, d>> in lowest *)
(* terms with d > 0; rounding is not modelled.                             *)
(***************************************************************************)

Abs(n) == IF n < 0 THEN 0 - n ELSE n

RECURSIVE GCD(_, _)
GCD(a, b) == IF b = 0 THEN a ELSE GCD(b, a % b)

\* the fraction n/d (d # 0) in lowest terms
Frac(n, d) ==
    LET g == GCD(Abs(n), Abs(d))
        sgn == IF d < 0 THEN 0 - 1 ELSE 1
    IN  <<(sgn * n) \div g, (sgn * d) \div g>>

Rat(n) == <<n, 1>>

RAdd(a, b) == Frac(a[1] * b[2] + b[1] * a[2], a[2] * b[2])

RSub(a, b) == Frac(a[1] * b[2] - b[1] * a[2], a[2] * b[2])

RMul(a, b) == Frac(a[1] * b[1], a[2] * b[2])

\* a / b, b # 0
RDiv(a, b) == Frac(a[1] * b[2], a[2] * b[1])

RLt(a, b) == a[1] * b[2] < b[1] * a[2]

RLe(a, b) == a[1] * b[2] <= b[1] * a[2]

RAbs(a) == <<Abs(a[1]), a[2]>>

\* the sum of f[i] over i \in S
RECURSIVE RSum(_, _)
RSum(f, S) ==
    IF S = {} THEN Rat(0)
    ELSE LET i == CHOOSE j \in S : TRUE
         IN  RAdd(f[i], RSum(f, S \ {i}))

\* the k-th smallest (k = 1..) of the fractions f[i], i \in S
RKthSmallest(f, S, k) ==
    CHOOSE v \in {f[i] : i \in S} :
        /\ Cardinality({i \in S : RLt(f[i], v)}) < k
        /\ Cardinality({i \in S : RLe(f[i], v)}) >= k

\* np.ma.median: the median of f over the unmasked positions S (S not empty)
RMedian(f, S) ==
    LET n == Cardinality(S)
    IN  IF n % 2 = 1
        THEN RKthSmallest(f, S, (n + 1) \div 2)
        ELSE RDiv(RAdd(RKthSmallest(f, S, n \div 2),
                       RKthSmallest(f, S, (n \div 2) + 1)), Rat(2))

\* np.ma.median(np.abs(f - median)) over S
RMad(f, S) ==
    LET med == RMedian(f, S)
    IN  RMedian([i \in DOMAIN f |-> RAbs(RSub(f[i], med))], S)

(***************************************************************************)
(* detrend (clean_utils.py:115-168)                                        *)
(* A series is a sequence y of fractions with a mask, the set of masked    *)
(* positions; position i of the model is index i-1 of the array.           *)
(***************************************************************************)

\* a new array that holds the values f[1], ..., f[n]
NdArray(f) == f \o <<>>

\* name = e; F(name): F at the value of e, which is computed once
With(e, F(_)) == CHOOSE r \in {F(v) : v \in {e}} : TRUE

\* polynomial orders of the model; scipy.linalg.lstsq is solved in closed form
\* for these
DetrendOrders == {0, 1}

\* np.round: to the nearest integer, halves to the even one; a >= 0, b > 0
RoundHalfEven(a, b) ==
    LET q == a \div b
        r == a % b
    IN  IF 2 * r < b THEN q
        ELSE IF 2 * r > b THEN q + 1
        ELSE IF q % 2 = 0 THEN q ELSE q + 1

\* lines 140-143: the segment edges
Edges(len, bp, numpieces) ==
    IF numpieces = None
    THEN <<0>> \o bp \o <<len>>
    ELSE [i \in 1..(numpieces + 1) |-> RoundHalfEven((i - 1) * len, numpieces)]

\* line 144: the positions of ydata[start:stop]
Segment(len, start, stop) == {i \in 1..len : start <= i - 1 /\ i - 1 < stop}

\* line 158, scipy.linalg.lstsq(A, ycomp): the coefficients <<c0, c1>> of the
\* least-squares polynomial through the points (i-1, y[i]), i \in S; with
\* fewer points than coefficients, the solution of least norm
LstSq(order, y, S) ==
    LET n == Cardinality(S)
        x == [i \in DOMAIN y |-> Rat(i - 1)]
        sy == RSum(y, S)
        sx == RSum(x, S)
        sxx == RSum([i \in DOMAIN y |-> RMul(x[i], x[i])], S)
        sxy == RSum([i \in DOMAIN y |-> RMul(x[i], y[i])], S)
    IN  IF order = 0 THEN <<RDiv(sy, Rat(n)), Rat(0)>>
        ELSE IF n = 1
        THEN <<RDiv(sy, RAdd(Rat(1), sxx)), RDiv(sxy, RAdd(Rat(1), sxx))>>
        ELSE LET den == RSub(RMul(Rat(n), sxx), RMul(sx, sx))
                 c1 == RDiv(RSub(RMul(Rat(n), sxy), RMul(sx, sy)), den)
                 c0 == RDiv(RSub(sy, RMul(c1, sx)), Rat(n))
             IN  <<c0, c1>>

\* line 164: np.dot(A, x) at position i
PolyAt(coef, i) == RAdd(coef[1], RMul(coef[2], Rat(i - 1)))

\* lines 144-164 for one segment, with the fit made to the masked values too
DetrendSegmentAllPoints(detrended, ymasked, mask, order, seg) ==
    IF seg \ mask = {} THEN detrended
    ELSE LET coef == LstSq(order, ymasked, seg)
         IN  NdArray([i \in DOMAIN detrended |->
                IF i \in seg THEN RSub(detrended[i], PolyAt(coef, i))
                             ELSE detrended[i]])

\* lines 144-164 for one segment: the fit subtracted from every position of
\* the segment, or nothing done when the segment has no unmasked position
DetrendSegment(detrended, ymasked, mask, order, seg) ==
    IF seg \ mask = {} THEN detrended
    ELSE LET coef == LstSq(order, ymasked, seg \ mask)
         IN  NdArray([i \in DOMAIN detrended |->
                IF i \in seg THEN RSub(detrended[i], PolyAt(coef, i))
                             ELSE detrended[i]])

\* lines 144-164: the segments k.. in turn
RECURSIVE DetrendFrom(_, _, _, _, _, _)
DetrendFrom(detrended, ymasked, mask, order, edges, k) ==
    IF k >= Len(edges) THEN detrended
    ELSE DetrendFrom(
            DetrendSegment(detrended, ymasked, mask, order,
                           Segment(Len(ymasked), edges[k], edges[k + 1])),
            ymasked, mask, order, edges, k + 1)

\* lines 135-168: detrend(ydata, order=, bp=, numpieces=) of a masked array;
\* the mask of the result is the mask of ydata
Detrend(ydata, mask, cfg) ==
    DetrendFrom(ydata, ydata, mask, cfg.order,
                Edges(Len(ydata), cfg.bp, cfg.numpieces), 1)

(***************************************************************************)
(* iterative_detrend (clean_utils.py:171-200)                              *)
(***************************************************************************)

\* line 171: thresh=5
DefaultThresh == 5

\* lines 190-192 with the mask of the result taken from the condition alone
OutlierMaskOnly(detrended, mask, thresh) ==
    LET S == (DOMAIN detrended) \ mask
        median == RMedian(detrended, S)
        spread == RMul(Rat(thresh), RMad(detrended, S))
    IN  {i \in S : \/ RLt(detrended[i], RSub(median, spread))
                   \/ RLt(RAdd(median, spread), detrended[i])}

\* lines 188-192: np.ma.masked_where adds the outliers among the unmasked
\* positions to the mask of detrended
OutlierMask(detrended, mask, thresh) ==
    LET S == (DOMAIN detrended) \ mask
        median == RMedian(detrended, S)
        spread == RMul(Rat(thresh), RMad(detrended, S))
    IN  mask \cup {i \in S : \/ RLt(detrended[i], RSub(median, spread))
                            \/ RLt(RAdd(median, spread), detrended[i])}

\* lines 186-192: one pass of the loop on ymasked = (y, mask)
DetrendPass(y, mask, thresh, cfg) ==
    LET detrended == Detrend(y, mask, cfg)
    IN  [y |-> detrended, mask |-> OutlierMask(detrended, mask, thresh)]

\* lines 184-197: the loop, from ymasked = (y, mask)
RECURSIVE DetrendLoop(_, _, _, _)
DetrendLoop(y, mask, thresh, cfg) ==
    IF (DOMAIN y) \ mask = {} THEN [y |-> y, mask |-> mask]
    ELSE LET next == DetrendPass(y, mask, thresh, cfg)
         IN  IF next.mask = mask THEN next
             ELSE DetrendLoop(next.y, next.mask, thresh, cfg)

\* lines 198-199 with the assignment left out
ResetMaskKept(reset_mask, mask, origmask) == mask

\* lines 198-199
ResetMask(reset_mask, mask, origmask) == IF reset_mask THEN origmask ELSE mask

\* lines 171-200: iterative_detrend(ydata, thresh, reset_mask, order=, bp=,
\* numpieces=) of the series (y, mask)
IterativeDetrend(y, mask, thresh, reset_mask, cfg) ==
    IF (DOMAIN y) \ mask = {} THEN [y |-> y, mask |-> mask]
    ELSE LET out == DetrendLoop(y, mask, thresh, cfg)
         IN  [y |-> out.y, mask |-> ResetMask(reset_mask, out.mask, mask)]

\* the detrend settings of the model: (order, bp, numpieces)
DetrendConfigs ==
    {[order |-> 0, bp |-> <<>>, numpieces |-> None],
     [order |-> 1, bp |-> <<>>, numpieces |-> None],
     [order |-> 0, bp |-> <<2>>, numpieces |-> None],
     [order |-> 1, bp |-> <<>>, numpieces |-> 2]}

\* the thresholds of the model: the default, and 0, under which every value
\* off the median is an outlier
Thresholds == {0, DefaultThresh}

\* the values of a series
SeriesValues == {0, 1, 9}

SeriesOf(n) == [1..n -> {Rat(v) : v \in SeriesValues}]

\* a call iterative_detrend(ydata, thresh=5, reset_mask, order, bp, numpieces)
\* on a masked series, before its first statement
DetInit ==
    /\ hot = HotIdle
    /\ fit = FitIdle
    /\ scl = SclIdle
    /\ sts = StsIdle
    /\ cln = ClnIdle
    /\ par = ParIdle
    /\ \E n \in 1..MaxLen, reset \in BOOLEAN, cfg \in DetrendConfigs,
          thresh \in Thresholds :
        \E y \in SeriesOf(n), mask \in SUBSET (1..n) :
            det = [pc |-> "start", ydata |-> y, origmask |-> mask,
                   reset_mask |-> reset, cfg |-> cfg, thresh |-> thresh,
                   y |-> y, mask |-> mask, passes |-> 0]

\* lines 172-176: no unmasked value, the input is returned
DetReturnMasked ==
    /\ UNCHANGED notDet
    /\ det.pc = "start"
    /\ (DOMAIN det.ydata) \ det.origmask = {}
    /\ det' = [det EXCEPT !.pc = "done"]

\* lines 177-183: the first outlier mask is computed on a copy that the loop
\* overwrites at once; ymasked is not changed
DetEnterLoop ==
    /\ UNCHANGED notDet
    /\ det.pc = "start"
    /\ (DOMAIN det.ydata) \ det.origmask # {}
    /\ det' = [det EXCEPT !.pc = "loop"]

\* lines 184-197: one pass of the loop
DetPass ==
    /\ UNCHANGED notDet
    /\ det.pc = "loop"
    /\ (DOMAIN det.y) \ det.mask # {}
    /\ LET next == DetrendPass(det.y, det.mask, det.thresh, det.cfg)
       IN  det' = [det EXCEPT !.y = next.y, !.mask = next.mask,
                              !.passes = @ + 1,
                              !.pc = IF next.mask = det.mask THEN "reset"
                                                             ELSE "loop"]

\* line 184, condition false
DetLoopExit ==
    /\ UNCHANGED notDet
    /\ det.pc = "loop"
    /\ (DOMAIN det.y) \ det.mask = {}
    /\ det' = [det EXCEPT !.pc = "reset"]

\* lines 198-200
DetReturn ==
    /\ UNCHANGED notDet
    /\ det.pc = "reset"
    /\ det' = [det EXCEPT !.pc = "done",
                          !.mask = ResetMask(det.reset_mask, det.mask, det.origmask)]

DetNext ==
    \/ DetReturnMasked
    \/ DetEnterLoop
    \/ DetPass
    \/ DetLoopExit
    \/ DetReturn

SpecDetrend == DetInit /\ [][DetNext]_vars

(***************************************************************************)
(* Claims about iterative_detrend                                          *)
(***************************************************************************)

\* C10: the loop of iterative_detrend is bounded: a pass either leaves the mask
\* as it was, and the loop stops, or masks at least one more point and unmasks
\* none, and the loop goes on; with n unmasked points at entry there are never
\* more than n+1 passes, and no pass is made once no unmasked point remains.
C10_DetrendTerminates ==
    /\ [](det.pc # "idle" =>
            det.passes <= Cardinality((DOMAIN det.ydata) \ det.origmask) + 1)
    /\ [][det.pc = "loop" =>
            IF (DOMAIN det.y) \ det.mask = {}
            THEN det'.pc = "reset" /\ det'.passes = det.passes
            ELSE /\ det'.passes = det.passes + 1
                 /\ det.mask \subseteq det'.mask
                 /\ det'.mask = det.mask => det'.pc = "reset"
                 /\ det'.mask # det.mask => det'.pc = "loop"]_vars

\* C10 witness: a call with the default threshold has ended after two passes
\* that each masked a point and a third that masked none
C10_Witness ==
    /\ det.pc = "done"
    /\ det.thresh = DefaultThresh
    /\ det.passes = 3
    /\ Cardinality(det.mask \ det.origmask) = 2

(***************************************************************************)
(* channel_scaler, subint_scaler (clean_utils.py:74-104)                   *)
(* A matrix is a sequence of rows; a float that may be NaN or infinite is  *)
(* a fraction whose denominator may be 0: <<0, 0>> is NaN, <<1, 0>> is     *)
(* +inf, <<-1, 0>> is -inf.                                                *)
(***************************************************************************)

FNaN == <<0, 0>>

FPosInf == <<1, 0>>

FNegInf == <<0 - 1, 0>>

IsFinite(x) == x[2] # 0

\* a / b on ndarrays: division by zero gives NaN or an infinity
PlainDivide(a, b) ==
    IF b[1] # 0 THEN RDiv(a, b)
    ELSE IF a[1] = 0 THEN FNaN
    ELSE IF a[1] > 0 THEN FPosInf ELSE FNegInf

\* the data of a / b on numpy.ma arrays: where the divisor is zero the
\* element is masked and its data is the dividend
MaskedDivide(a, b) == IF b[1] # 0 THEN RDiv(a, b) ELSE a

NRows(m) == Len(m)

NCols(m) == Len(m[1])

\* array2d[:, ichan]
Column(m, ichan) == NdArray([isub \in 1..NRows(m) |-> m[isub][ichan]])

\* array2d[isub, :]
Row(m, isub) == m[isub]

Transpose(m) ==
    NdArray([j \in 1..NCols(m) |-> NdArray([i \in 1..NRows(m) |-> m[i][j]])])

\* lines 82-83 and 99-100: iterative_detrend(slice, order=, bp=, numpieces=),
\* thresh and reset_mask at their defaults, on a slice without masked values
ScalerDetrend(slice, cfg) == IterativeDetrend(slice, {}, DefaultThresh, TRUE, cfg).y

\* lines 84-86 and 101-103: the slice scaled by its median and its median
\* absolute deviation.  isMA tells whether detrended is a numpy.ma array.
Normalise(detrended, isMA) ==
    LET S == DOMAIN detrended
        median == RMedian(detrended, S)
        mad == RMad(detrended, S)
    IN  NdArray([i \in S |->
            IF isMA THEN MaskedDivide(RSub(detrended[i], median), mad)
                    ELSE PlainDivide(RSub(detrended[i], median), mad)])

\* lines 79-83: the chain applied in turn, entry j of the chain to the result
\* of entry j-1
RECURSIVE ChainSuccessive(_, _, _)
ChainSuccessive(slice, chain, j) ==
    IF j > Len(chain) THEN slice
    ELSE LET Rest(detrended) == ChainSuccessive(detrended, chain, j + 1)
         IN  With(ScalerDetrend(slice, chain[j]), Rest)

\* lines 96-100: every entry of the chain applied to array2d[isub,:]; the
\* result of the last one is kept
ChainOnRaw(slice, chain) ==
    IF chain = <<>> THEN slice ELSE ScalerDetrend(slice, chain[Len(chain)])

\* lines 74-87: channel_scaler(array2d) under the chain of the configuration
ChannelScaler(array2d, chain, isMA) ==
    LET Scale(detrended) == Normalise(detrended, isMA \/ chain # <<>>)
        col(ichan) == With(ChainSuccessive(Column(array2d, ichan), chain, 1), Scale)
    IN  With(NdArray([ichan \in 1..NCols(array2d) |-> col(ichan)]), Transpose)

\* lines 90-104: subint_scaler(array2d) under the chain of the configuration
SubintScaler(array2d, chain, isMA) ==
    LET Scale(detrended) == Normalise(detrended, isMA \/ chain # <<>>)
    IN  NdArray([isub \in 1..NRows(array2d) |->
            With(ChainOnRaw(Row(array2d, isub), chain), Scale)])

\* the (order, bp, numpieces) entries of the chains of the model
ScalerConfigs ==
    {[order |-> 1, bp |-> <<>>, numpieces |-> None],
     [order |-> 0, bp |-> <<>>, numpieces |-> 2]}

\* zip(cfg.chan_order, cfg.chan_breakpoints, cfg.chan_numpieces)
Chains == UNION {[1..k -> ScalerConfigs] : k \in 0..MaxChain}

MatrixShapes ==
    {sh \in (1..MaxSlice) \X (1..MaxSlice) : sh[1] * sh[2] <= MaxSlice}

MatricesOf(sh, values) == [1..sh[1] -> [1..sh[2] -> values]]

\* the slices of a call, in the order of its outer loop
SliceOf(s, k) ==
    IF s.axis = "channel" THEN Column(s.array2d, k) ELSE Row(s.array2d, k)

NSlices(s) ==
    IF s.axis = "channel" THEN NCols(s.array2d) ELSE NRows(s.array2d)

\* a call channel_scaler(array2d) or subint_scaler(array2d), at the head of
\* its outer loop; scaled = np.empty_like(array2d) holds nothing yet
SclInit ==
    /\ hot = HotIdle
    /\ fit = FitIdle
    /\ det = DetIdle
    /\ sts = StsIdle
    /\ cln = ClnIdle
    /\ par = ParIdle
    /\ \E sh \in MatrixShapes, axis \in {"channel", "subint"}, chain \in Chains,
          isMA \in BOOLEAN :
        \E m \in MatricesOf(sh, {Rat(v) : v \in SeriesValues}) :
            scl = [pc |-> "slice", axis |-> axis, array2d |-> m, chain |-> chain,
                   isMA |-> isMA, k |-> 1, j |-> 0, detrended |-> <<>>,
                   fed |-> <<>>, previous |-> <<>>, scaled |-> <<>>]

\* lines 78 and 95: detrended = the next slice
SclTakeSlice ==
    /\ UNCHANGED notScl
    /\ scl.pc = "slice"
    /\ scl.k <= NSlices(scl)
    /\ scl' = [scl EXCEPT !.pc = "chain", !.j = 0,
                          !.detrended = SliceOf(scl, scl.k),
                          !.fed = <<>>, !.previous = <<>>]

\* lines 79-83 and 96-100: the next entry of the chain.  channel_scaler hands
\* detrended to iterative_detrend, subint_scaler hands array2d[isub,:] to it.
SclDetrendEntry ==
    /\ UNCHANGED notScl
    /\ scl.pc = "chain"
    /\ scl.j < Len(scl.chain)
    /\ LET input == IF scl.axis = "channel" THEN scl.detrended
                                            ELSE SliceOf(scl, scl.k)
       IN  scl' = [scl EXCEPT !.j = @ + 1, !.fed = input,
                              !.previous = scl.detrended,
                              !.detrended = ScalerDetrend(input, scl.chain[scl.j + 1])]

\* lines 84-86 and 101-103
SclNormalise ==
    /\ UNCHANGED notScl
    /\ scl.pc = "chain"
    /\ scl.j = Len(scl.chain)
    /\ scl' = [scl EXCEPT !.pc = "slice", !.k = @ + 1,
                          !.scaled = Append(@, Normalise(scl.detrended,
                                                scl.isMA \/ scl.chain # <<>>))]

\* lines 87 and 104: scaled is returned; the slices written are its columns
\* (channel_scaler) or its rows (subint_scaler)
SclReturn ==
    /\ UNCHANGED notScl
    /\ scl.pc = "slice"
    /\ scl.k > NSlices(scl)
    /\ scl' = [scl EXCEPT !.pc = "done",
                          !.scaled = IF scl.axis = "channel" THEN Transpose(@)
                                                             ELSE @]

SclNext ==
    \/ SclTakeSlice
    \/ SclDetrendEntry
    \/ SclNormalise
    \/ SclReturn

SpecScale == SclInit /\ [][SclNext]_vars

(***************************************************************************)
(* Claims about the axis scalers                                           *)
(***************************************************************************)

\* C7: in both scalers the first entry of the chain is fed the raw slice and
\* every later entry the output of the entry before it; so subint_scaler(M) is
\* the transpose of channel_scaler(transpose(M)) under the same chain.
C7_ChainAppliedSuccessively ==
    /\ (scl.pc = "chain" /\ scl.j = 1) => scl.fed = SliceOf(scl, scl.k)
    /\ (scl.pc = "chain" /\ scl.j > 1) => scl.fed = scl.previous
    /\ (scl.pc = "done" /\ scl.axis = "subint") =>
        scl.scaled = Transpose(ChannelScaler(Transpose(scl.array2d),
                                             scl.chain, scl.isMA))

(***************************************************************************)
(* comprehensive_stats (clean_utils.py:25-71)                              *)
(* The cube is a matrix of profiles of two phase bins, for which the four  *)
(* diagnostics are rational.                                               *)
(***************************************************************************)

\* np.abs of a float
FAbs(x) == <<Abs(x[1]), x[2]>>

\* x / thresh, thresh a positive number
FOver(x, thresh) == IF IsFinite(x) THEN RDiv(x, Rat(thresh)) ELSE x

\* a <= b for floats other than NaN
FLe(a, b) ==
    IF IsFinite(a) /\ IsFinite(b) THEN RLe(a, b)
    ELSE a = FNegInf \/ b = FPosInf

\* np.max over two floats: NaN wins
FMax(a, b) ==
    IF a = FNaN \/ b = FNaN THEN FNaN
    ELSE IF FLe(a, b) THEN b ELSE a

FAdd(a, b) ==
    IF a = FNaN \/ b = FNaN THEN FNaN
    ELSE IF IsFinite(a) /\ IsFinite(b) THEN RAdd(a, b)
    ELSE IF IsFinite(a) THEN b
    ELSE IF IsFinite(b) \/ a = b THEN a
    ELSE FNaN

FHalf(x) == IF IsFinite(x) THEN RDiv(x, Rat(2)) ELSE x

\* the order of a sort of floats: NaN comes last
SortsBefore(a, b) == a # FNaN /\ (b = FNaN \/ ~FLe(b, a))

FKthSmallest(f, k) ==
    CHOOSE v \in {f[i] : i \in DOMAIN f} :
        /\ Cardinality({i \in DOMAIN f : SortsBefore(f[i], v)}) < k
        /\ Cardinality({i \in DOMAIN f : ~SortsBefore(v, f[i])}) >= k

\* line 70: np.median over the diagnostics at one cell (an even number of
\* them).  A build either answers NaN when a NaN is present or takes the
\* middle of the sorted values.
NpMedian(f, nanPropagates) ==
    LET n == Len(f)
    IN  IF nanPropagates /\ \E i \in DOMAIN f : f[i] = FNaN THEN FNaN
        ELSE FHalf(FAdd(FKthSmallest(f, n \div 2), FKthSmallest(f, (n \div 2) + 1)))

\* lines 44-50, on a profile p of two bins
DiagStd(p) == Frac(Abs(p[1] - p[2]), 2)

DiagMean(p) == Frac(p[1] + p[2], 2)

DiagPtp(p) == Rat(Abs(p[1] - p[2]))

\* the rfft of the mean-subtracted profile is <<0, p[1] - p[2]>>
DiagFftMax(p) == Rat(Abs(p[1] - p[2]))

\* lines 44-52: the diagnostic functions, in their order
Diagnostic(d, p) ==
    CASE d = 1 -> DiagStd(p)
      [] d = 2 -> DiagMean(p)
      [] d = 3 -> DiagPtp(p)
      [] d = 4 -> DiagFftMax(p)

NumDiagnostics == 4

MapCells(m, F(_, _)) ==
    NdArray([isub \in 1..NRows(m) |->
                NdArray([ichan \in 1..NCols(m) |-> F(isub, ichan)])])

\* the profiles of the cubes of the model
CubeProfiles == {<<0, 1>>, <<MaxVal, 0>>}

\* <<clean_chanthresh, clean_subintthresh>>
StatThresholds == {<<1, 2>>, <<2, 1>>}

\* the chains of the configuration of one axis
StatChains ==
    {<<>>,
     <<[order |-> 1, bp |-> <<>>, numpieces |-> None]>>,
     <<[order |-> 1, bp |-> <<>>, numpieces |-> None],
       [order |-> 0, bp |-> <<>>, numpieces |-> 2]>>}

\* a call comprehensive_stats(data, axis=2).  maStats: np.ma.std, np.ma.mean
\* and np.ma.ptp answer numpy.ma arrays (the cube is one, or the build makes
\* one of an ndarray); the fourth diagnostic is an ndarray in every build.
StsInit ==
    /\ hot = HotIdle
    /\ fit = FitIdle
    /\ det = DetIdle
    /\ scl = SclIdle
    /\ cln = ClnIdle
    /\ par = ParIdle
    /\ \E sh \in MatrixShapes, cc \in StatChains, sc \in StatChains,
          thresh \in StatThresholds,
          maStats \in BOOLEAN, nanPropagates \in BOOLEAN :
        \E cube \in MatricesOf(sh, CubeProfiles) :
            sts = [pc |-> "diagnose", data |-> cube, orig |-> cube,
                   chan_chain |-> cc, subint_chain |-> sc,
                   chanthresh |-> thresh[1], subintthresh |-> thresh[2],
                   maStats |-> maStats, nanPropagates |-> nanPropagates,
                   diagnostics |-> <<>>, chan_scaled |-> <<>>, subint_scaled |-> <<>>,
                   scaled_diagnostics |-> <<>>, test_results |-> <<>>]

DiagIsMA(s, d) == s.maStats /\ d < NumDiagnostics

\* lines 54-56
StsDiagnose ==
    /\ UNCHANGED notSts
    /\ sts.pc = "diagnose"
    /\ sts' = [sts EXCEPT
                 !.pc = "chan",
                 !.diagnostics =
                     NdArray([d \in 1..NumDiagnostics |->
                         LET F(isub, ichan) == Diagnostic(d, sts.data[isub][ichan])
                         IN  MapCells(sts.data, F)])]

\* line 61: chan_scaled = np.abs(channel_scaler(diag))/chanthresh
StsChanScale ==
    /\ UNCHANGED notSts
    /\ sts.pc = "chan"
    /\ Len(sts.scaled_diagnostics) < NumDiagnostics
    /\ LET d == Len(sts.scaled_diagnostics) + 1
           AbsOver(out) ==
               LET F(isub, ichan) == FOver(FAbs(out[isub][ichan]), sts.chanthresh)
               IN  MapCells(out, F)
       IN  sts' = [sts EXCEPT
                     !.pc = "subint",
                     !.chan_scaled =
                         With(ChannelScaler(sts.diagnostics[d], sts.chan_chain,
                                            DiagIsMA(sts, d)), AbsOver)]

\* line 62: subint_scaled = np.abs(subint_scaler(diag))/subintthresh
StsSubintScale ==
    /\ UNCHANGED notSts
    /\ sts.pc = "subint"
    /\ LET d == Len(sts.scaled_diagnostics) + 1
           AbsOver(out) ==
               LET F(isub, ichan) == FOver(FAbs(out[isub][ichan]), sts.subintthresh)
               IN  MapCells(out, F)
       IN  sts' = [sts EXCEPT
                     !.pc = "combine",
                     !.subint_scaled =
                         With(SubintScaler(sts.diagnostics[d], sts.subint_chain,
                                           DiagIsMA(sts, d)), AbsOver)]

\* line 64: np.max((chan_scaled, subint_scaled), axis=0) is appended
StsCombine ==
    /\ UNCHANGED notSts
    /\ sts.pc = "combine"
    /\ LET F(isub, ichan) == FMax(sts.chan_scaled[isub][ichan],
                                  sts.subint_scaled[isub][ichan])
       IN  sts' = [sts EXCEPT !.pc = "chan",
                              !.scaled_diagnostics = Append(@, MapCells(sts.data, F))]

\* lines 70-71
StsMedian ==
    /\ UNCHANGED notSts
    /\ sts.pc = "chan"
    /\ Len(sts.scaled_diagnostics) = NumDiagnostics
    /\ LET F(isub, ichan) ==
               NpMedian([d \in 1..NumDiagnostics |->
                            sts.scaled_diagnostics[d][isub][ichan]],
                        sts.nanPropagates)
       IN  sts' = [sts EXCEPT !.pc = "done",
                              !.test_results = MapCells(sts.data, F)]

StsNext ==
    \/ StsDiagnose
    \/ StsChanScale
    \/ StsSubintScale
    \/ StsCombine
    \/ StsMedian

SpecStats == StsInit /\ [][StsNext]_vars

(***************************************************************************)
(* Claims about comprehensive_stats                                        *)
(***************************************************************************)

Cells(m) == {c \in (1..NRows(m)) \X (1..NCols(m)) : TRUE}

\* v is the larger of the real numbers a and b
IsMaxOf(v, a, b) ==
    /\ IsFinite(v) /\ IsFinite(a) /\ IsFinite(b)
    /\ v \in {a, b}
    /\ RLe(a, v) /\ RLe(b, v)

\* v is the median of the four real numbers f[1..4]: the mean of two of them
\* that have one of the others below and one above
IsMedianOf(v, f) ==
    /\ \A i \in DOMAIN f : IsFinite(f[i])
    /\ IsFinite(v)
    /\ \E lo, p, q, hi \in DOMAIN f :
        /\ {lo, p, q, hi} = DOMAIN f
        /\ RLe(f[lo], f[p]) /\ RLe(f[p], f[q]) /\ RLe(f[q], f[hi])
        /\ RMul(v, Rat(2)) = RAdd(f[p], f[q])

\* C8: every value comprehensive_stats returns is the median over the four
\* diagnostics of max(|channel-scaled| / chanthresh, |subint-scaled| /
\* subintthresh) at its cell; it is not negative, and the cube is as it was.
C8_MedianOfScaledMax ==
    /\ (sts.pc = "chan" /\ sts.scaled_diagnostics # <<>>) =>
        \A c \in Cells(sts.data) :
            IsMaxOf(sts.scaled_diagnostics[Len(sts.scaled_diagnostics)][c[1]][c[2]],
                    sts.chan_scaled[c[1]][c[2]], sts.subint_scaled[c[1]][c[2]])
    /\ sts.pc = "done" =>
        /\ sts.data = sts.orig
        /\ \A c \in Cells(sts.data) :
            /\ IsMedianOf(sts.test_results[c[1]][c[2]],
                          [d \in 1..NumDiagnostics |->
                              sts.scaled_diagnostics[d][c[1]][c[2]]])
            /\ RLe(Rat(0), sts.test_results[c[1]][c[2]])

\* C9: a slice whose values are constant at the final normalisation of an
\* axis scaler gets defined scaled values; no NaN and no infinity is found in
\* a scaled matrix or in the badness matrix.
C9_NoDivisionByZero ==
    /\ sts.pc \in {"subint", "combine"} =>
        \A c \in Cells(sts.data) : IsFinite(sts.chan_scaled[c[1]][c[2]])
    /\ sts.pc = "combine" =>
        \A c \in Cells(sts.data) : IsFinite(sts.subint_scaled[c[1]][c[2]])
    /\ sts.pc = "done" =>
        \A c \in Cells(sts.data) : IsFinite(sts.test_results[c[1]][c[2]])

(***************************************************************************)
(* Further claims about iterative_detrend and detrend                      *)
(***************************************************************************)

\* C11: inside iterative_detrend the mask never shrinks: after every pass it
\* holds the mask before the pass and the mask of the caller.  On return it is
\* the mask of the caller when reset_mask is true, and the mask the loop ended
\* with, which holds the mask of the caller, when reset_mask is false.
C11_MaskNeverShrinks ==
    /\ [](det.pc # "idle" => det.origmask \subseteq det.mask)
    /\ [](det.pc = "done" /\ det.reset_mask => det.mask = det.origmask)
    /\ [][det.pc = "loop" => det.mask \subseteq det'.mask]_vars
    /\ [][det.pc = "reset" /\ ~det.reset_mask => det'.mask = det.mask]_vars

C11_Witness ==
    /\ det.pc = "done"
    /\ ~det.reset_mask
    /\ det.origmask # {}
    /\ det.passes >= 2
    /\ det.mask # det.origmask
\* the segments detrend cuts the series of a call into
SegmentsOf(d) ==
    LET edges == Edges(Len(d.ydata), d.cfg.bp, d.cfg.numpieces)
    IN  {Segment(Len(d.ydata), edges[k], edges[k + 1]) : k \in 1..(Len(edges) - 1)}

\* what was subtracted on seg is a polynomial of the order in the position
IsPolynomialOn(before, after, seg, order) ==
    LET diff(i) == RSub(before[i], after[i])
    IN  IF order = 0
        THEN \A i, j \in seg : diff(i) = diff(j)
        ELSE \A i, j, k \in seg :
                RMul(RSub(diff(j), diff(i)), Rat(k - j)) =
                RMul(RSub(diff(k), diff(j)), Rat(j - i))

\* after is a least-squares residual on the positions S: it is orthogonal to
\* the powers of the position up to the order
IsResidualOn(after, S, order) ==
    /\ RSum(after, S) = Rat(0)
    /\ order = 1 =>
        RSum([i \in DOMAIN after |-> RMul(Rat(i - 1), after[i])], S) = Rat(0)

\* C12: detrend leaves a segment without unmasked points as it was and fits
\* every other segment to its own unmasked points only; iterative_detrend on
\* a fully masked series returns values and mask as given, with no call of
\* detrend.
C12_DegenerateInputUnchanged ==
    /\ [][(det.pc = "loop" /\ (DOMAIN det.y) \ det.mask # {}) =>
            \A seg \in SegmentsOf(det) :
                IF seg \ det.mask = {}
                THEN \A i \in seg : det'.y[i] = det.y[i]
                ELSE /\ IsPolynomialOn(det.y, det'.y, seg, det.cfg.order)
                     /\ IsResidualOn(det'.y, seg \ det.mask, det.cfg.order)]_vars
    /\ [][(det.pc = "start" /\ (DOMAIN det.ydata) \ det.origmask = {}) =>
            /\ det'.pc = "done"
            /\ det'.y = det.ydata
            /\ det'.mask = det.origmask
            /\ det'.passes = 0]_vars

C12_Witness ==
    /\ det.pc = "done"
    /\ det.passes = 1
    /\ Len(det.ydata) = MaxLen
    /\ det.cfg.bp = <<2>>
    /\ det.origmask = {1, 2, 3}
    /\ det.y # det.ydata
(***************************************************************************)
(* Further claims about profile removal                                    *)
(***************************************************************************)

\* the cube, the archive's amplitudes and the archive's weights
Stored(f) == <<f.data, f.arAmps, f.arWeights>>

\* C13: in pooled mode nothing is written to the cube or to the archive
\* before every submitted task has completed: every write is made by the
\* coordinator after pool.join(), whatever the order of the tasks; and the
\* result of a task is made of the profile of its own cell and the template.
C13_WritesAfterJoin ==
    /\ [](fit.pc = "pool" =>
            /\ Stored(fit) = <<fit.orig, fit.orig, [c \in DOMAIN fit.orig |-> 1]>>
            /\ \A c \in DOMAIN fit.orig : fit.writes[c] = 0)
    /\ [][(fit.pc # "idle" /\ fit.nthreads > 1 /\ Stored(fit') # Stored(fit)) =>
            /\ fit.pc = "gather"
            /\ Len(fit.results) = fit.nsubs * fit.nchans
            /\ \A i \in DOMAIN fit.results : fit.results[i].ready]_vars
    /\ [](fit.pc # "idle" =>
            \A i \in DOMAIN fit.results :
                LET c == NdIndex(fit.nsubs, fit.nchans)[i]
                IN  fit.results[i].ready =>
                        /\ fit.results[i].value.cell = c
                        /\ fit.results[i].value.amps =
                            IF fit.lsq[c].status \in {1, 2, 3, 4}
                            THEN [b \in DOMAIN fit.orig[c] |->
                                    fit.lsq[c].amp * fit.template[b] - fit.orig[c][b]]
                            ELSE [b \in DOMAIN fit.orig[c] |-> 0])

C13_Witness ==
    /\ fit.pc = "gather"
    /\ fit.nthreads > 1
    /\ fit.nsubs * fit.nchans = MaxCells
    /\ fit.k = 2
    /\ Stored(fit) # <<fit.orig, fit.orig, [c \in DOMAIN fit.orig |-> 1]>>
\* the cube a single-threaded remove_profile leaves, given the answers of
\* the solver for the cells
SingleThreaded(f) ==
    [c \in DOMAIN f.orig |->
        IF f.lsq[c].status \in {1, 2, 3, 4}
        THEN [b \in DOMAIN f.orig[c] |->
                f.lsq[c].amp * f.template[b] - f.orig[c][b]]
        ELSE [b \in DOMAIN f.orig[c] |-> 0]]

\* C14: remove_profile leaves the same cube with nthreads = 1 and with
\* nthreads > 1, in whatever order the tasks finish: each cell is written
\* once, with the result computed from its own original profile, and a write
\* changes no other cell than the one its result was computed for.
C14_PooledEqualsSingle ==
    /\ []((fit.pc = "done" /\ fit.mode = "copy") =>
            /\ fit.data = SingleThreaded(fit)
            /\ \A c \in DOMAIN fit.orig : fit.writes[c] = 1)
    /\ []((fit.pc # "idle" /\ fit.mode = "copy") =>
            \A c \in DOMAIN fit.orig :
                /\ fit.writes[c] <= 1
                /\ fit.writes[c] = 0 => fit.data[c] = fit.orig[c]
                /\ fit.writes[c] = 1 => fit.data[c] = SingleThreaded(fit)[c])
    /\ [][(fit.pc \in {"single", "gather"} /\ fit.mode = "copy") =>
            \A c \in DOMAIN fit.orig :
                c # NdIndex(fit.nsubs, fit.nchans)[fit.k] =>
                    /\ fit'.data[c] = fit.data[c]
                    /\ fit'.writes[c] = fit.writes[c]]_vars

C14_Witness ==
    /\ fit.pc = "done"
    /\ fit.mode = "copy"
    /\ fit.nthreads > 1
    /\ \E c, d \in DOMAIN fit.orig :
        /\ fit.orig[c] # fit.orig[d]
        /\ fit.lsq[c].status = 1 /\ fit.lsq[d].status = 4
        /\ fit.data[c] # fit.data[d]
        /\ fit.data[c] # fit.orig[c]

(***************************************************************************)
(* clean_subint (clean_utils.py:469-487)                                   *)
(* The archive is a function from <<isub, ichan, ipol>> to the amplitudes  *)
(* of the profile, with a weight for every profile.  bins is a list of     *)
(* bin positions; position b of the model is index b-1 of the array.       *)
(***************************************************************************)

\* lines 473-474: the bins that mask marks
Listed(bins) == {bins[i] : i \in DOMAIN bins}

\* masked_data.mean() taken over every bin, the mask left out
PlainMean(data, mask) == RDiv(RSum(data, DOMAIN data), Rat(Len(data)))

\* line 483, masked_data.mean(): the mean over the bins that mask does not
\* mark (there is one)
MaskedMean(data, mask) ==
    RDiv(RSum(data, (DOMAIN data) \ mask), Rat(Cardinality((DOMAIN data) \ mask)))

\* line 482, masked_data.std(), squared
MaskedVar(data, mask) ==
    LET S == (DOMAIN data) \ mask
        mean == MaskedMean(data, mask)
        dev == [i \in DOMAIN data |-> RMul(RSub(data[i], mean), RSub(data[i], mean))]
    IN  RDiv(RSum(dev, S), Rat(Cardinality(S)))

\* the values a draw from a normal distribution is given in the model
NoiseValues == {Rat(7), Rat(8)}

\* line 484, scipy.stats.norm.rvs(loc, scale, size) when it answers: draws
\* of any value for a positive scale, loc itself for scale 0, and NaN or any
\* value when loc and scale are the masked constant
NormRvs(data, mask, size) ==
    IF (DOMAIN data) \ mask = {}
    THEN {[i \in 1..size |-> v] : v \in NoiseValues \cup {FNaN}}
    ELSE IF MaskedVar(data, mask) = Rat(0)
    THEN {[i \in 1..size |-> MaskedMean(data, mask)]}
    ELSE [1..size -> NoiseValues]

\* line 484 may raise ValueError in place of an answer: scale is 0 or masked
RvsMayRaise(data, mask) ==
    IF (DOMAIN data) \ mask = {} THEN TRUE
    ELSE MaskedVar(data, mask) = Rat(0)

\* lines 485-486: for ii, newval in zip(bins, noise): data[ii] = newval
RECURSIVE ReplaceBins(_, _, _, _)
ReplaceBins(data, bins, noise, i) ==
    IF i > Len(bins) THEN data
    ELSE ReplaceBins([data EXCEPT ![bins[i]] = noise[i]], bins, noise, i + 1)

\* the profiles of the archives of the model
CleanProfiles ==
    {<<Rat(0), Rat(0), Rat(MaxVal)>>, <<Rat(1), Rat(MaxVal), Rat(0)>>,
     <<Rat(1), Rat(1), Rat(1)>>}

\* the lists of bins of the model
CleanBins == {<<>>, <<3>>, <<1, 2>>, <<3, 3>>, <<2, 3, 1>>}

\* <<nsubint, nchan, npol>> of the archives of the model
ArchiveShapes ==
    {sh \in (1..MaxProfs) \X (1..MaxProfs) \X (1..MaxProfs) :
        sh[1] * sh[2] * sh[3] <= MaxProfs}

ProfilesOf(sh) == (1..sh[1]) \X (1..sh[2]) \X (1..sh[3])

\* line 479: the profile the loops are at, <<isub, ichan, ipol>>
CurrentProfile(c) ==
    <<c.isub, NdIndex(c.nchan, c.npol)[c.k][1], NdIndex(c.nchan, c.npol)[c.k][2]>>

\* a call clean_subint(ar, isub, bins), before its loops
ClnInit ==
    /\ hot = HotIdle
    /\ fit = FitIdle
    /\ det = DetIdle
    /\ scl = SclIdle
    /\ sts = StsIdle
    /\ par = ParIdle
    /\ \E sh \in ArchiveShapes, bins \in CleanBins :
        \E isub \in 1..sh[1], amps \in [ProfilesOf(sh) -> CleanProfiles],
           weights \in [ProfilesOf(sh) -> {0, 1}] :
            cln = [pc |-> "loop", nsub |-> sh[1], nchan |-> sh[2], npol |-> sh[3],
                   isub |-> isub, bins |-> bins, k |-> 1,
                   amps |-> amps, weights |-> weights,
                   orig |-> amps, origWeights |-> weights,
                   loc |-> None, scale2 |-> None]

\* the loops after one more profile
ClnAdvance(c) ==
    [c EXCEPT !.k = @ + 1,
              !.pc = IF c.k + 1 > c.nchan * c.npol THEN "done" ELSE "loop"]

\* line 480, the weight is 0: the profile is passed over
ClnSkip ==
    /\ UNCHANGED notCln
    /\ cln.pc = "loop"
    /\ cln.weights[CurrentProfile(cln)] = 0
    /\ cln' = ClnAdvance(cln)

\* lines 480-486 for one profile of non-zero weight
ClnReplace ==
    /\ UNCHANGED notCln
    /\ cln.pc = "loop"
    /\ cln.weights[CurrentProfile(cln)] # 0
    /\ LET p == CurrentProfile(cln)
           data == cln.amps[p]
           mask == Listed(cln.bins)
       IN  \E noise \in NormRvs(data, mask, Len(cln.bins)) :
              cln' = ClnAdvance(
                  [cln EXCEPT !.amps[p] = ReplaceBins(data, cln.bins, noise, 1),
                              !.loc = IF (DOMAIN data) \ mask = {} THEN None
                                      ELSE MaskedMean(data, mask),
                              !.scale2 = IF (DOMAIN data) \ mask = {} THEN None
                                         ELSE MaskedVar(data, mask)])

\* line 484 raises: the call ends at this profile
ClnRaise ==
    /\ UNCHANGED notCln
    /\ cln.pc = "loop"
    /\ cln.weights[CurrentProfile(cln)] # 0
    /\ RvsMayRaise(cln.amps[CurrentProfile(cln)], Listed(cln.bins))
    /\ cln' = [cln EXCEPT !.pc = "raised"]

ClnNext ==
    \/ ClnSkip
    \/ ClnReplace
    \/ ClnRaise

SpecClean == ClnInit /\ [][ClnNext]_vars

(***************************************************************************)
(* Claims about clean_subint                                               *)
(***************************************************************************)

\* C15: clean_subint changes nothing but the amplitudes at the listed bins
\* of the profiles of sub-observation isub whose weight is not 0; the weights
\* stay, and the mean and the standard deviation of the noise are those of
\* the bins of the profile that are not listed.
C15_OnlyListedBinsChange ==
    /\ [](cln.pc # "idle" =>
            /\ cln.weights = cln.origWeights
            /\ \A p \in DOMAIN cln.orig : \A b \in DOMAIN cln.orig[p] :
                cln.amps[p][b] # cln.orig[p][b] =>
                    /\ p[1] = cln.isub
                    /\ cln.origWeights[p] # 0
                    /\ \E i \in DOMAIN cln.bins : cln.bins[i] = b)
    /\ [][(cln.pc = "loop" /\ cln'.pc # "raised"
            /\ cln.weights[CurrentProfile(cln)] # 0) =>
            LET data == cln.orig[CurrentProfile(cln)]
                rest == {b \in DOMAIN data : \A i \in DOMAIN cln.bins : cln.bins[i] # b}
                n == Rat(Cardinality(rest))
                sq == [b \in DOMAIN data |->
                        RMul(RSub(data[b], cln'.loc), RSub(data[b], cln'.loc))]
            IN  rest # {} =>
                    /\ RMul(cln'.loc, n) = RSum(data, rest)
                    /\ RMul(cln'.scale2, n) = RSum(sq, rest)]_vars

C15_Witness ==
    /\ cln.pc = "done"
    /\ cln.nsub > 1
    /\ cln.bins = <<1, 2>>
    /\ \E p, q \in DOMAIN cln.orig :
        /\ p[1] = cln.isub /\ q[1] # cln.isub
        /\ cln.weights[p] # 0 /\ cln.weights[q] # 0
        /\ cln.amps[p][1] # cln.orig[p][1]
        /\ cln.amps[p][2] # cln.orig[p][2]
        /\ cln.amps[p][3] = Rat(MaxVal)

(***************************************************************************)
(* Configuration types (cleaners/config_types.py:58-186)                   *)
(* A string is a sequence of characters.  The result of get_param_value    *)
(* is a record: ok is FALSE when the call raises ValueError, none is TRUE  *)
(* when it returns None, val is the value otherwise.                       *)
(***************************************************************************)

\* str.lower()
Lower(str) ==
    LET upper == <<"A", "B", "C", "D", "E", "F", "G", "H", "I", "J", "K", "L", "M",
                   "N", "O", "P", "Q", "R", "S", "T", "U", "V", "W", "X", "Y", "Z">>
        lower == <<"a", "b", "c", "d", "e", "f", "g", "h", "i", "j", "k", "l", "m",
                   "n", "o", "p", "q", "r", "s", "t", "u", "v", "w", "x", "y", "z">>
    IN  [i \in DOMAIN str |->
            IF \E k \in DOMAIN upper : upper[k] = str[i]
            THEN lower[CHOOSE k \in DOMAIN upper : upper[k] = str[i]]
            ELSE str[i]]

\* str.strip(): the white space at both ends removed
RECURSIVE Strip(_)
Strip(str) ==
    IF str = <<>> THEN str
    ELSE IF Head(str) = " " THEN Strip(Tail(str))
    ELSE IF str[Len(str)] = " " THEN Strip(SubSeq(str, 1, Len(str) - 1))
    ELSE str

\* str.split(c) for a separator of one character
RECURSIVE Split(_, _)
Split(str, c) ==
    IF \A i \in DOMAIN str : str[i] # c THEN <<str>>
    ELSE LET i == CHOOSE j \in DOMAIN str :
                    str[j] = c /\ \A k \in 1..(j - 1) : str[k] # c
         IN  <<SubSeq(str, 1, i - 1)>> \o Split(SubSeq(str, i + 1, Len(str)), c)

\* str.partition(';;'): <<head, sep, tail>> around the first ';;'
Partition(str) ==
    LET at == {j \in 1..(Len(str) - 1) : str[j] = ";" /\ str[j + 1] = ";"}
    IN  IF at = {} THEN <<str, <<>>, <<>>>>
        ELSE LET i == CHOOSE j \in at : \A k \in at : j <= k
             IN  <<SubSeq(str, 1, i - 1), <<";", ";">>, SubSeq(str, i + 2, Len(str))>>

\* sep.join(strs)
RECURSIVE Join(_, _)
Join(strs, sep) ==
    IF strs = <<>> THEN <<>>
    ELSE IF Len(strs) = 1 THEN strs[1]
    ELSE strs[1] \o sep \o Join(Tail(strs), sep)

Digits == <<"0", "1", "2", "3", "4", "5", "6", "7", "8", "9">>

\* the digits of int(): the stripped string without its sign
IntBody(str) ==
    LET t == Strip(str)
    IN  IF t # <<>> /\ Head(t) \in {"-", "+"} THEN Tail(t) ELSE t

\* int(str) does not raise: white space, a sign, digits, white space
IsInt(str) ==
    /\ IntBody(str) # <<>>
    /\ \A i \in DOMAIN IntBody(str) : \E k \in DOMAIN Digits : Digits[k] = IntBody(str)[i]

RECURSIVE NatOf(_)
NatOf(digits) ==
    IF digits = <<>> THEN 0
    ELSE 10 * NatOf(SubSeq(digits, 1, Len(digits) - 1))
            + (CHOOSE k \in DOMAIN Digits : Digits[k] = digits[Len(digits)]) - 1

\* int(str), for a string that IsInt
ParseInt(str) ==
    IF Head(Strip(str)) = "-" THEN 0 - NatOf(IntBody(str)) ELSE NatOf(IntBody(str))

\* "%d" % n
RECURSIVE FormatNat(_)
FormatNat(n) ==
    IF n < 10 THEN <<Digits[n + 1]>>
    ELSE FormatNat(n \div 10) \o <<Digits[(n % 10) + 1]>>

FormatInt(n) == IF n < 0 THEN <<"-">> \o FormatNat(0 - n) ELSE FormatNat(n)

Raises == [ok |-> FALSE, none |-> FALSE, val |-> <<>>]

Value(v) == [ok |-> TRUE, none |-> FALSE, val |-> v]

NoneValue == [ok |-> TRUE, none |-> TRUE, val |-> <<>>]

\* lines 89-98: _str_to_intlist(paramstr)
StrToIntlist(paramstr) ==
    IF Strip(paramstr) # <<>>
    THEN LET intstrs == Split(paramstr, ";")
         IN  IF \A i \in DOMAIN intstrs : IsInt(intstrs[i])
             THEN Value([i \in DOMAIN intstrs |-> ParseInt(intstrs[i])])
             ELSE Raises
    ELSE Value(<<>>)

\* lines 134-140: the loop over the remainder of the string
RECURSIVE IntLists(_)
IntLists(remainder) ==
    IF remainder = <<>> THEN Value(<<>>)
    ELSE LET parts == Partition(remainder)
             first == StrToIntlist(parts[1])
             rest == IntLists(parts[3])
         IN  IF first.ok /\ rest.ok THEN Value(<<first.val>> \o rest.val)
             ELSE Raises

\* lines 164-169: _to_int_pair(paramstr)
ToIntPair(paramstr) ==
    LET intstrs == Split(paramstr, ":")
    IN  IF Len(intstrs) = 2 /\ IsInt(intstrs[1]) /\ IsInt(intstrs[2])
        THEN Value(<<ParseInt(intstrs[1]), ParseInt(intstrs[2])>>)
        ELSE Raises

\* get_param_value of BoolVal (lines 65-81), IntList (107-111), IntListList
\* (130-141) and IntPairList (171-180)
GetParamValue(type, paramstr) ==
    CASE type = "BoolVal" ->
            IF Lower(paramstr) \in {<<"t", "r", "u", "e">>, <<"1">>,
                                    <<"y">>, <<"y", "e", "s">>}
            THEN Value(TRUE)
            ELSE IF Lower(paramstr) \in {<<"f", "a", "l", "s", "e">>, <<"0">>,
                                         <<"n">>, <<"n", "o">>}
            THEN Value(FALSE)
            ELSE Raises
      [] type = "IntList" ->
            IF Lower(paramstr) = <<"n", "o", "n", "e">> THEN NoneValue
            ELSE StrToIntlist(paramstr)
      [] type = "IntListList" ->
            IF Lower(paramstr) = <<"n", "o", "n", "e">> THEN NoneValue
            ELSE IF Strip(paramstr) # <<>> THEN IntLists(paramstr)
            ELSE Value(<<>>)
      [] type = "IntPairList" ->
            IF Strip(paramstr) # <<>>
            THEN LET pairstrs == Split(paramstr, ";")
                     pairs == [i \in DOMAIN pairstrs |-> ToIntPair(pairstrs[i])]
                 IN  IF \A i \in DOMAIN pairs : pairs[i].ok
                     THEN Value([i \in DOMAIN pairs |-> pairs[i].val])
                     ELSE Raises
            ELSE Value(<<>>)

\* ";".join(["%d" % ii for ii in ints])
FormatIntlist(ints) == Join([i \in DOMAIN ints |-> FormatInt(ints[i])], <<";">>)

\* the string normalize_param_string makes of a value: BoolVal (line 86),
\* IntList (117-121), IntListList (146-155), IntPairList (185-186)
FormatValue(type, value) ==
    CASE type = "BoolVal" ->
            IF value.val THEN <<"T", "r", "u", "e">>
                         ELSE <<"F", "a", "l", "s", "e">>
      [] type = "IntList" ->
            IF value.none THEN <<"N", "o", "n", "e">>
            ELSE FormatIntlist(value.val)
      [] type = "IntListList" ->
            IF value.none THEN <<"N", "o", "n", "e">>
            ELSE Join([i \in DOMAIN value.val |-> FormatIntlist(value.val[i])],
                      <<";", ";">>)
      [] type = "IntPairList" ->
            Join([i \in DOMAIN value.val |->
                    FormatInt(value.val[i][1]) \o <<":">> \o FormatInt(value.val[i][2])],
                 <<";">>)

\* normalize_param_string(paramstr), for a string get_param_value accepts
NormalizeParamString(type, paramstr) ==
    FormatValue(type, GetParamValue(type, paramstr))

ConfigTypes == {"BoolVal", "IntList", "IntListList", "IntPairList"}

\* all strings of at most n characters of an alphabet
StringsUpTo(alphabet, n) == UNION {[1..k -> alphabet] : k \in 0..n}

\* the parameter strings tried for each configuration type
ParamStrings(type) ==
    LET NoneStrings == {<<"n", "o", "n", "e">>, <<"N", "o", "n", "e">>,
                        <<"N", "O", "N", "E">>}
    IN
    CASE type = "BoolVal" ->
            {<<"t", "r", "u", "e">>, <<"T", "R", "U", "E">>, <<"T", "r", "u", "e">>,
             <<"1">>, <<"y">>, <<"Y">>, <<"y", "e", "s">>, <<"Y", "e", "s">>,
             <<"f", "a", "l", "s", "e">>, <<"F", "a", "l", "s", "e">>, <<"0">>,
             <<"n">>, <<"N">>, <<"n", "o">>, <<"N", "O">>,
             <<>>, <<" ", "1">>, <<"2">>, <<"o", "n">>}
      [] type = "IntList" ->
            StringsUpTo({"0", "1", "-", ";", " "}, MaxStr) \cup NoneStrings
      [] type = "IntListList" ->
            StringsUpTo({"0", "1", "-", ";", " "}, MaxStr) \cup NoneStrings
      [] type = "IntPairList" ->
            StringsUpTo({"1", "-", ":", ";", " "}, MaxStr)
                \cup {<<"1", ":", "0", ";", "0", ":", "1">>,
                      <<"n", "o", "n", "e">>}

ParInit ==
    /\ \E type \in ConfigTypes : \E paramstr \in ParamStrings(type) :
          par = [pc |-> "start", type |-> type, paramstr |-> paramstr,
                 value |-> Raises, normed |-> <<>>,
                 value2 |-> Raises, normed2 |-> <<>>]
    /\ hot = HotIdle
    /\ fit = FitIdle
    /\ det = DetIdle
    /\ scl = SclIdle
    /\ sts = StsIdle
    /\ cln = ClnIdle

\* value = get_param_value(paramstr), which returns
ParGet ==
    /\ par.pc = "start"
    /\ GetParamValue(par.type, par.paramstr).ok
    /\ par' = [par EXCEPT !.pc = "parsed",
                          !.value = GetParamValue(par.type, par.paramstr)]
    /\ UNCHANGED notPar

\* get_param_value(paramstr) raises ValueError
ParRaise ==
    /\ par.pc = "start"
    /\ ~GetParamValue(par.type, par.paramstr).ok
    /\ par' = [par EXCEPT !.pc = "raised"]
    /\ UNCHANGED notPar

\* normed = normalize_param_string(paramstr)
ParNormalize ==
    /\ par.pc = "parsed"
    /\ par' = [par EXCEPT !.pc = "normed",
                          !.normed = NormalizeParamString(par.type, par.paramstr)]
    /\ UNCHANGED notPar

\* value2 = get_param_value(normed)
ParGetNormalized ==
    /\ par.pc = "normed"
    /\ par' = [par EXCEPT !.pc = "reparsed",
                          !.value2 = GetParamValue(par.type, par.normed)]
    /\ UNCHANGED notPar

\* normed2 = normalize_param_string(normed)
ParNormalizeAgain ==
    /\ par.pc = "reparsed"
    /\ par.value2.ok
    /\ par' = [par EXCEPT !.pc = "done",
                          !.normed2 = NormalizeParamString(par.type, par.normed)]
    /\ UNCHANGED notPar

ParNext ==
    \/ ParGet
    \/ ParRaise
    \/ ParNormalize
    \/ ParGetNormalized
    \/ ParNormalizeAgain

SpecParam == ParInit /\ [][ParNext]_vars

\* C16: for each of BoolVal, IntList, IntListList and IntPairList and every
\* string get_param_value accepts, the normalised string has the value of the
\* string and normalising the normalised string gives it back, lists of
\* integer lists with empty inner lists (";;", ";;;;") included.
C16_NormalizePreservesValue ==
    /\ par.pc \in {"reparsed", "done"} => par.value2 = par.value
    /\ par.pc = "done" => par.normed2 = par.normed

====
